---- MODULE Spec2Model ----
(***************************************************************************)
(* Model of selection_and_structures.py: the two selection algorithms      *)
(* (median_of_medians, randomized_quickselect) as explicit call stacks,    *)
(* and the elementary containers (Stack, Queue, LinkedList).               *)
(***************************************************************************)
EXTENDS Integers, Sequences, FiniteSets

\* ------------------------------------------------------------------ bounds
MaxLen == 6      \* longest collection given to median_of_medians
QSMaxLen == 5    \* longest collection given to randomized_quickselect
MaxVal == 2      \* element values are 0..MaxVal
MaxItems == 3    \* most items held by the stack / enqueued into the queue
MaxItemVal == 1  \* container values are 0..MaxItemVal
MaxNodes == 4    \* most nodes ever allocated by the linked list

\* the group size and base-case threshold of median_of_medians
GroupSize == 5

VARIABLES
    alg,      \* which selector the top-level call runs: "MoM" or "QS"
    arr,      \* the top-level call's collection
    k,        \* the top-level call's rank
    stack,    \* call stack: frames [arr, k, phase], top last
    ret,      \* value in flight from a returned callee to its caller
    part,     \* locals of the most recent partition loop
    ncalls,   \* recursive calls made so far
    result,   \* outcome of the top-level call
    pc,       \* "run" while the top-level call is active, then "done"
    s_items,  \* Stack.items
    q_items,  \* Queue.items
    enq,      \* every value enqueued so far, in order
    deq,      \* every value a dequeue returned so far, in order
    head,     \* LinkedList.head (0 is None)
    nodes,    \* allocated Node objects: id -> [data, next] (next 0 is None)
    absList,  \* the abstract sequence the linked list stands for
    last      \* the most recent container operation and how it ended

selVars == <<alg, arr, k, stack, ret, part, ncalls, result, pc>>
sqVars == <<s_items, q_items, enq, deq>>
llVars == <<head, nodes, absList>>
contVars == <<sqVars, llVars, last>>
vars == <<selVars, contVars>>

\* ---------------------------------------------------------- Python helpers
Vals == 0..MaxVal

Front(s) == SubSeq(s, 1, Len(s) - 1)

\* a faulty variant of PyIndex: an out-of-range index yields a default instead of raising
PyIndexDefault(s, i) ==
    IF 0 <= i /\ i < Len(s) THEN [ok |-> TRUE, val |-> s[i + 1]]
    ELSE IF i < 0 /\ -i <= Len(s) THEN [ok |-> TRUE, val |-> s[Len(s) + i + 1]]
    ELSE [ok |-> TRUE, val |-> 0]

\* list[i] with Python's index rules: 0-based, negative i counts from the end,
\* anything outside -len .. len-1 raises IndexError.
PyIndex(s, i) ==
    IF 0 <= i /\ i < Len(s) THEN [ok |-> TRUE, val |-> s[i + 1]]
    ELSE IF i < 0 /\ -i <= Len(s) THEN [ok |-> TRUE, val |-> s[Len(s) + i + 1]]
    ELSE [ok |-> FALSE, val |-> 0]

\* s[a:b] for 0 <= a <= b (0-based, end exclusive, clipped to the list).
PySlice(s, a, b) ==
    LET e == IF b < Len(s) THEN b ELSE Len(s)
    IN  IF a >= e THEN <<>> ELSE SubSeq(s, a + 1, e)

RECURSIVE InsertSorted(_, _)
InsertSorted(s, x) ==
    IF s = <<>> THEN <<x>>
    ELSE IF x < Head(s) THEN <<x>> \o s
    ELSE <<Head(s)>> \o InsertSorted(Tail(s), x)

\* sorted(s)
RECURSIVE Sorted(_)
Sorted(s) ==
    IF s = <<>> THEN <<>>
    ELSE InsertSorted(Sorted(Front(s)), s[Len(s)])

\* ------------------------------------------------------ median_of_medians
\* sorted(group)[len(group) // 2]
GroupMedian(group) == Sorted(group)[(Len(group) \div 2) + 1]

\* the medians list built by the loop over range(0, len(arr), 5)
RECURSIVE MediansFrom(_, _)
MediansFrom(a, i) ==
    IF i >= Len(a) THEN <<>>
    ELSE <<GroupMedian(PySlice(a, i, i + GroupSize))>> \o MediansFrom(a, i + GroupSize)

Medians(a) == MediansFrom(a, 0)

\* rank passed to the recursive call on medians
PivotRank(medians) == (Len(medians) \div 2) + 1

\* the partition loop of median_of_medians
RECURSIVE MoMLoop(_, _, _)
MoMLoop(a, pivot, acc) ==
    IF a = <<>> THEN acc
    ELSE LET x == Head(a)
         IN  MoMLoop(Tail(a), pivot,
                IF x < pivot THEN [acc EXCEPT !.left = Append(@, x)]
                ELSE IF x > pivot THEN [acc EXCEPT !.right = Append(@, x)]
                ELSE [acc EXCEPT !.pivot_count = @ + 1])

\* a faulty variant of MoMPartitionOf: `x <= pivot` sends the pivot's occurrences to left
RECURSIVE MoMLoopLeq(_, _, _)
MoMLoopLeq(a, pivot, acc) ==
    IF a = <<>> THEN acc
    ELSE LET x == Head(a)
         IN  MoMLoopLeq(Tail(a), pivot,
                IF x <= pivot THEN [acc EXCEPT !.left = Append(@, x)]
                ELSE IF x > pivot THEN [acc EXCEPT !.right = Append(@, x)]
                ELSE [acc EXCEPT !.pivot_count = @ + 1])

MoMPartitionLeq(a, pivot) ==
    MoMLoopLeq(a, pivot, [set |-> TRUE, arr |-> a, pivot |-> pivot,
                         left |-> <<>>, right |-> <<>>, pivot_count |-> 0])

MoMPartitionOf(a, pivot) ==
    MoMLoop(a, pivot, [set |-> TRUE, arr |-> a, pivot |-> pivot,
                      left |-> <<>>, right |-> <<>>, pivot_count |-> 0])

\* a faulty variant of MoMRightRank: the pivot's occurrences are not subtracted
MoMRightRankNoPivot(kk, L, P) == kk - L

\* rank passed on when recursing into right
MoMRightRank(kk, L, P) == kk - L - P

\* which branch of the final if/elif/else is taken
MoMBranch(kk, L, P) ==
    IF kk <= L THEN "left"
    ELSE IF kk > L + P THEN "right"
    ELSE "pivot"

\* ------------------------------------------------- randomized_quickselect
\* the partition loop of randomized_quickselect
RECURSIVE QSLoop(_, _, _)
QSLoop(a, pivot, acc) ==
    IF a = <<>> THEN acc
    ELSE LET x == Head(a)
         IN  QSLoop(Tail(a), pivot,
                IF x < pivot THEN [acc EXCEPT !.left = Append(@, x)]
                ELSE IF x > pivot THEN [acc EXCEPT !.right = Append(@, x)]
                ELSE [acc EXCEPT !.pivot_count = @ + 1])

\* a faulty variant of QSPartitionOf: `x >= pivot` sends the pivot's occurrences to right
RECURSIVE QSLoopGeq(_, _, _)
QSLoopGeq(a, pivot, acc) ==
    IF a = <<>> THEN acc
    ELSE LET x == Head(a)
         IN  QSLoopGeq(Tail(a), pivot,
                IF x < pivot THEN [acc EXCEPT !.left = Append(@, x)]
                ELSE IF x >= pivot THEN [acc EXCEPT !.right = Append(@, x)]
                ELSE [acc EXCEPT !.pivot_count = @ + 1])

QSPartitionGeq(a, pivot) ==
    QSLoopGeq(a, pivot, [set |-> TRUE, arr |-> a, pivot |-> pivot,
                        left |-> <<>>, right |-> <<>>, pivot_count |-> 0])

QSPartitionOf(a, pivot) ==
    QSLoop(a, pivot, [set |-> TRUE, arr |-> a, pivot |-> pivot,
                      left |-> <<>>, right |-> <<>>, pivot_count |-> 0])

\* a faulty variant of QSRightRank: the pivot's occurrences are not subtracted
QSRightRankNoPivot(kk, L, P) == kk - L

\* rank passed on when recursing into right
QSRightRank(kk, L, P) == kk - L - P

\* a faulty variant of QSBranch: `k < len(left)` instead of `k <= len(left)`
QSBranchStrict(kk, L, P) ==
    IF kk < L THEN "left"
    ELSE IF kk > L + P THEN "right"
    ELSE "pivot"

\* which branch of the final if/elif/else is taken
QSBranch(kk, L, P) ==
    IF kk <= L THEN "left"
    ELSE IF kk > L + P THEN "right"
    ELSE "pivot"

\* ------------------------------------------------------------ call stack
NoPart == [set |-> FALSE, arr |-> <<>>, pivot |-> 0,
           left |-> <<>>, right |-> <<>>, pivot_count |-> 0]
NoRet == [set |-> FALSE, val |-> 0]
NoResult == [kind |-> "none", val |-> 0]

Frame(a, kk) == [arr |-> a, k |-> kk, phase |-> "call"]
Top == stack[Len(stack)]
Running == pc = "run" /\ stack # <<>>

\* the top frame executes `return v`
Return(v) ==
    /\ stack' = Front(stack)
    /\ IF Len(stack) = 1
       THEN /\ pc' = "done"
            /\ result' = [kind |-> "return", val |-> v]
            /\ ret' = NoRet
       ELSE /\ pc' = "run"
            /\ result' = result
            /\ ret' = [set |-> TRUE, val |-> v]

\* an exception leaves the top frame; nothing catches it
Raise(kind) ==
    /\ stack' = <<>>
    /\ pc' = "done"
    /\ result' = [kind |-> kind, val |-> 0]
    /\ ret' = NoRet

\* the top frame calls itself recursively on (a, kk) and waits in `phase`
Call(a, kk, phase) ==
    /\ stack' = [stack EXCEPT ![Len(stack)].phase = phase] \o <<Frame(a, kk)>>
    /\ ncalls' = ncalls + 1
    /\ ret' = NoRet
    /\ UNCHANGED <<pc, result>>

\* median_of_medians, len(arr) <= 5: return sorted(arr)[k - 1]
AtMoMBase ==
    /\ Running /\ alg = "MoM" /\ Top.phase = "call"
    /\ Len(Top.arr) <= GroupSize

MoMBase ==
    /\ AtMoMBase
    /\ LET r == PyIndex(Sorted(Top.arr), Top.k - 1)
       IN  IF r.ok THEN Return(r.val) ELSE Raise("IndexError")
    /\ UNCHANGED <<alg, arr, k, part, ncalls, contVars>>

\* median_of_medians, len(arr) > 5: build medians and call for the pivot
AtMoMMedians ==
    /\ Running /\ alg = "MoM" /\ Top.phase = "call"
    /\ Len(Top.arr) > GroupSize

MoMMedians ==
    /\ AtMoMMedians
    /\ LET medians == Medians(Top.arr)
       IN  Call(medians, PivotRank(medians), "pivot")
    /\ UNCHANGED <<alg, arr, k, part, contVars>>

\* median_of_medians once the pivot call has returned: partition, then
\* recurse into left or right, or return the pivot
AtMoMPartition == Running /\ alg = "MoM" /\ Top.phase = "pivot" /\ ret.set

MoMPartition ==
    /\ AtMoMPartition
    /\ LET p == MoMPartitionOf(Top.arr, ret.val)
           L == Len(p.left)
           P == p.pivot_count
           b == MoMBranch(Top.k, L, P)
       IN  /\ part' = p
           /\ IF b = "left" THEN Call(p.left, Top.k, "tail")
              ELSE IF b = "right" THEN Call(p.right, MoMRightRank(Top.k, L, P), "tail")
              ELSE Return(p.pivot) /\ ncalls' = ncalls
    /\ UNCHANGED <<alg, arr, k, contVars>>

\* randomized_quickselect, len(arr) == 1: return arr[0]
AtQSBase ==
    /\ Running /\ alg = "QS" /\ Top.phase = "call"
    /\ Len(Top.arr) = 1

QSBase ==
    /\ AtQSBase
    /\ Return(Top.arr[1])
    /\ UNCHANGED <<alg, arr, k, part, ncalls, contVars>>

\* randomized_quickselect on an empty list: random.randint(0, -1) raises
AtQSEmpty ==
    /\ Running /\ alg = "QS" /\ Top.phase = "call"
    /\ Len(Top.arr) = 0

QSEmpty ==
    /\ AtQSEmpty
    /\ Raise("ValueError")
    /\ UNCHANGED <<alg, arr, k, part, ncalls, contVars>>

\* randomized_quickselect, len(arr) > 1: random pivot, partition, then
\* recurse into left or right, or return the pivot
AtQSPartition ==
    /\ Running /\ alg = "QS" /\ Top.phase = "call"
    /\ Len(Top.arr) > 1

QSPartition ==
    /\ AtQSPartition
    /\ \E pivot_idx \in 0..(Len(Top.arr) - 1) :
         LET p == QSPartitionOf(Top.arr, Top.arr[pivot_idx + 1])
             L == Len(p.left)
             P == p.pivot_count
             b == QSBranch(Top.k, L, P)
         IN  /\ part' = p
             /\ IF b = "left" THEN Call(p.left, Top.k, "tail")
                ELSE IF b = "right" THEN Call(p.right, QSRightRank(Top.k, L, P), "tail")
                ELSE Return(p.pivot) /\ ncalls' = ncalls
    /\ UNCHANGED <<alg, arr, k, contVars>>

\* `return median_of_medians(...)` / `return randomized_quickselect(...)`:
\* the callee's value is returned unchanged
AtTailReturn == Running /\ Top.phase = "tail" /\ ret.set

TailReturn ==
    /\ AtTailReturn
    /\ Return(ret.val)
    /\ UNCHANGED <<alg, arr, k, part, ncalls, contVars>>

\* the lists of at most n integers
Inputs(n) == UNION {[1..m -> Vals] : m \in 0..n}

SelIdle ==
    /\ alg = "MoM" /\ arr = <<>> /\ k = 0 /\ stack = <<>> /\ ret = NoRet
    /\ part = NoPart /\ ncalls = 0 /\ result = NoResult /\ pc = "done"

SelInit ==
    /\ alg \in {"MoM", "QS"}
    /\ arr \in Inputs(IF alg = "MoM" THEN MaxLen ELSE QSMaxLen)
    /\ k \in (-1)..(Len(arr) + 1)
    /\ stack = <<Frame(arr, k)>>
    /\ ret = NoRet
    /\ part = NoPart
    /\ ncalls = 0
    /\ result = NoResult
    /\ pc = "run"

\* -------------------------------------------------------------- containers
ItemVals == 0..MaxItemVal

NoOp == [obj |-> "none", op |-> "none", arg |-> 0, exc |-> "none",
         ret |-> 0, flag |-> FALSE, seq |-> <<>>]

Did(obj, op) == [NoOp EXCEPT !.obj = obj, !.op = op]

ContIdle ==
    /\ s_items = <<>> /\ q_items = <<>> /\ enq = <<>> /\ deq = <<>>
    /\ head = 0 /\ nodes = <<>> /\ absList = <<>>
    /\ last = NoOp

\* a faulty variant of StackIsEmpty: a one-item stack counts as empty
StackIsEmptyOffByOne(items) == Len(items) <= 1

\* Stack.is_empty: len(self.items) == 0
StackIsEmpty(items) == Len(items) = 0

\* Stack.push(item)
push ==
    /\ Len(s_items) < MaxItems
    /\ \E item \in ItemVals :
         /\ s_items' = Append(s_items, item)
         /\ last' = [Did("stack", "push") EXCEPT !.arg = item]
    /\ UNCHANGED <<selVars, q_items, enq, deq, llVars>>

\* Stack.pop()
pop ==
    /\ IF ~StackIsEmpty(s_items)
       THEN /\ s_items' = Front(s_items)
            /\ last' = [Did("stack", "pop") EXCEPT !.ret = s_items[Len(s_items)]]
       ELSE /\ s_items' = s_items
            /\ last' = [Did("stack", "pop") EXCEPT !.exc = "IndexError"]
    /\ UNCHANGED <<selVars, q_items, enq, deq, llVars>>

\* Stack.peek()
s_peek ==
    /\ IF ~StackIsEmpty(s_items)
       THEN last' = [Did("stack", "peek") EXCEPT !.ret = s_items[Len(s_items)]]
       ELSE last' = [Did("stack", "peek") EXCEPT !.exc = "IndexError"]
    /\ UNCHANGED <<selVars, sqVars, llVars>>

\* Stack.is_empty()
s_is_empty ==
    /\ last' = [Did("stack", "is_empty") EXCEPT !.flag = StackIsEmpty(s_items)]
    /\ UNCHANGED <<selVars, sqVars, llVars>>

\* Queue.is_empty: len(self.items) == 0
QueueIsEmpty(items) == Len(items) = 0

\* a faulty variant of QueuePop0: pop() takes the newest item instead of the oldest
QueuePopLast(items) == [val |-> items[Len(items)], rest |-> Front(items)]

\* self.items.pop(0): the value removed and the list left behind
QueuePop0(items) == [val |-> Head(items), rest |-> Tail(items)]

\* self.items[0]
QueueFront(items) == items[1]

\* Queue.enqueue(item)
enqueue ==
    /\ Len(enq) < MaxItems
    /\ \E item \in ItemVals :
         /\ q_items' = Append(q_items, item)
         /\ enq' = Append(enq, item)
         /\ last' = [Did("queue", "enqueue") EXCEPT !.arg = item]
    /\ UNCHANGED <<selVars, s_items, deq, llVars>>

\* Queue.dequeue()
dequeue ==
    /\ IF ~QueueIsEmpty(q_items)
       THEN LET r == QueuePop0(q_items)
            IN  /\ q_items' = r.rest
                /\ deq' = Append(deq, r.val)
                /\ last' = [Did("queue", "dequeue") EXCEPT !.ret = r.val]
       ELSE /\ UNCHANGED <<q_items, deq>>
            /\ last' = [Did("queue", "dequeue") EXCEPT !.exc = "IndexError"]
    /\ UNCHANGED <<selVars, s_items, enq, llVars>>

\* Queue.peek()
q_peek ==
    /\ IF ~QueueIsEmpty(q_items)
       THEN last' = [Did("queue", "peek") EXCEPT !.ret = QueueFront(q_items)]
       ELSE last' = [Did("queue", "peek") EXCEPT !.exc = "IndexError"]
    /\ UNCHANGED <<selVars, sqVars, llVars>>

\* Queue.is_empty()
q_is_empty ==
    /\ last' = [Did("queue", "is_empty") EXCEPT !.flag = QueueIsEmpty(q_items)]
    /\ UNCHANGED <<selVars, sqVars, llVars>>

\* ------------------------------------------------------------- LinkedList
\* Node(data): data set, next None
Node(data) == [data |-> data, next |-> 0]

\* the while loop of delete: the node at which `current` stops
RECURSIVE WalkTo(_, _, _)
WalkTo(ns, current, data) ==
    IF ns[current].next # 0 /\ ns[ns[current].next].data # data
    THEN WalkTo(ns, ns[current].next, data)
    ELSE current

\* a faulty variant of DeleteFrom: the head node is never compared with data
DeleteSkipHead(h, ns, data) ==
    IF h = 0 THEN [head |-> h, nodes |-> ns]
    ELSE LET current == WalkTo(ns, h, data)
         IN  IF ns[current].next # 0
             THEN [head |-> h,
                   nodes |-> [ns EXCEPT ![current].next = ns[ns[current].next].next]]
             ELSE [head |-> h, nodes |-> ns]

\* LinkedList.delete(data): the head and nodes it leaves
DeleteFrom(h, ns, data) ==
    IF h = 0 THEN [head |-> h, nodes |-> ns]
    ELSE IF ns[h].data = data THEN [head |-> ns[h].next, nodes |-> ns]
    ELSE LET current == WalkTo(ns, h, data)
         IN  IF ns[current].next # 0
             THEN [head |-> h,
                   nodes |-> [ns EXCEPT ![current].next = ns[ns[current].next].next]]
             ELSE [head |-> h, nodes |-> ns]

\* LinkedList.traverse(): the data of the nodes reached from `current`
RECURSIVE TraverseFrom(_, _)
TraverseFrom(ns, current) ==
    IF current = 0 THEN <<>>
    ELSE <<ns[current].data>> \o TraverseFrom(ns, ns[current].next)

\* the sequence s without its first occurrence of v (s itself when v is absent)
RemoveFirst(s, v) ==
    IF \E i \in 1..Len(s) : s[i] = v
    THEN LET i == CHOOSE j \in 1..Len(s) :
                     s[j] = v /\ \A m \in 1..(j - 1) : s[m] # v
         IN  SubSeq(s, 1, i - 1) \o SubSeq(s, i + 1, Len(s))
    ELSE s

\* LinkedList.insert_head(data)
insert_head ==
    /\ Len(nodes) < MaxNodes
    /\ \E data \in ItemVals :
         /\ nodes' = Append(nodes, [Node(data) EXCEPT !.next = head])
         /\ head' = Len(nodes) + 1
         /\ absList' = <<data>> \o absList
         /\ last' = [Did("list", "insert_head") EXCEPT !.arg = data]
    /\ UNCHANGED <<selVars, sqVars>>

\* LinkedList.delete(data)
delete ==
    /\ \E data \in ItemVals :
         LET r == DeleteFrom(head, nodes, data)
         IN  /\ head' = r.head
             /\ nodes' = r.nodes
             /\ absList' = RemoveFirst(absList, data)
             /\ last' = [Did("list", "delete") EXCEPT !.arg = data]
    /\ UNCHANGED <<selVars, sqVars>>

\* LinkedList.traverse()
traverse ==
    /\ last' = [Did("list", "traverse") EXCEPT !.seq = TraverseFrom(nodes, head)]
    /\ UNCHANGED <<selVars, sqVars, llVars>>

\* --------------------------------------------------------- specifications
SelNext ==
    \/ MoMBase
    \/ MoMMedians
    \/ MoMPartition
    \/ QSBase
    \/ QSEmpty
    \/ QSPartition
    \/ TailReturn

StackQueueNext ==
    \/ push
    \/ pop
    \/ s_peek
    \/ s_is_empty
    \/ enqueue
    \/ dequeue
    \/ q_peek
    \/ q_is_empty

ListNext ==
    \/ insert_head
    \/ delete
    \/ traverse

\* one top-level selection call, from its entry to its outcome
SelStart == SelInit /\ ContIdle

SelSpec == SelStart /\ [][SelNext]_vars

\* every container freshly constructed, no selection call active
ContStart == SelIdle /\ ContIdle

\* any sequence of Stack and Queue operations
StackQueueSpec == ContStart /\ [][StackQueueNext]_vars

\* any sequence of LinkedList operations
ListSpec == ContStart /\ [][ListNext]_vars

\* ---------------------------------------------------------------- claims
\* the top-level call has a non-empty collection and 1 <= k <= len
ValidInput == Len(arr) >= 1 /\ 1 <= k /\ k <= Len(arr)

CountLess(s, v) == Cardinality({i \in 1..Len(s) : s[i] < v})
CountLeq(s, v) == Cardinality({i \in 1..Len(s) : s[i] <= v})

\* v is the kk-th smallest of s: fewer than kk elements lie below it and at
\* least kk lie at or below it
IsKth(s, kk, v) ==
    /\ \E i \in 1..Len(s) : s[i] = v
    /\ CountLess(s, v) < kk
    /\ kk <= CountLeq(s, v)

\* C1: for every non-empty collection and valid k, median_of_medians returns
\* sorted(C)[k-1], the k-th smallest element, duplicates included.
C1_MoMSelectsKth ==
    (pc = "done" /\ alg = "MoM" /\ ValidInput) =>
        /\ result.kind = "return"
        /\ result.val = Sorted(arr)[k]
        /\ IsKth(arr, k, result.val)

\* the recursive case ran on a collection with a repeated pivot value and
\* recursed into a side
C1_Witness ==
    /\ pc = "done" /\ alg = "MoM" /\ ValidInput
    /\ Len(arr) > GroupSize /\ ncalls >= 2 /\ part.pivot_count >= 2
    /\ result.kind = "return"

\* C2: for every non-empty collection and valid k, randomized_quickselect
\* returns sorted(C)[k-1] whichever pivot indices are drawn.
C2_QSSelectsKth ==
    (pc = "done" /\ alg = "QS" /\ ValidInput) =>
        /\ result.kind = "return"
        /\ result.val = Sorted(arr)[k]
        /\ IsKth(arr, k, result.val)

\* a quickselect call that recursed at least twice before returning
C2_Witness ==
    /\ pc = "done" /\ alg = "QS" /\ ValidInput
    /\ Len(arr) >= 4 /\ ncalls >= 2 /\ result.kind = "return"

\* C3: for a non-empty collection and k < 1 or k > len, both selectors fail
\* with an error before any recursion or partitioning, and never return an
\* element.
C3_InvalidRankRejected ==
    (pc = "done" /\ Len(arr) >= 1 /\ ~ValidInput) =>
        /\ result.kind \in {"IndexError", "ValueError"}
        /\ ncalls = 0
        /\ ~part.set

\* C4: on an empty collection both selectors end in an exception for every
\* k (IndexError from sorted([])[k-1], ValueError from random.randint(0, -1)),
\* at the top-level call, and never return a value.
C4_EmptyInputFails ==
    (pc = "done" /\ arr = <<>>) =>
        /\ result.kind = (IF alg = "MoM" THEN "IndexError" ELSE "ValueError")
        /\ ncalls = 0
        /\ ~part.set

\* median_of_medians has failed on an empty collection with rank 0
C4_Witness ==
    /\ pc = "done" /\ arr = <<>> /\ k = 0 /\ alg = "MoM"
    /\ result.kind = "IndexError"

\* C5: pop/peek on an empty Stack and dequeue/peek on an empty Queue raise
\* IndexError and leave the container empty; on a non-empty container they
\* never raise.
C5_EmptyRaisesNonEmptyDoesNot ==
    [][/\ (last'.obj = "stack" /\ last'.op \in {"pop", "peek"}) =>
            IF s_items = <<>>
            THEN last'.exc = "IndexError" /\ s_items' = <<>>
            ELSE last'.exc = "none"
       /\ (last'.obj = "queue" /\ last'.op \in {"dequeue", "peek"}) =>
            IF q_items = <<>>
            THEN last'.exc = "IndexError" /\ q_items' = <<>>
            ELSE last'.exc = "none"]_vars

\* a dequeue on an emptied queue has raised while the stack holds items
C5_Witness ==
    /\ last.obj = "queue" /\ last.op = "dequeue" /\ last.exc = "IndexError"
    /\ q_items = <<>> /\ enq # <<>> /\ s_items # <<>>

\* C6: the values returned by successful dequeues are, in order, a prefix of
\* the enqueued values; peek on a non-empty queue returns the earliest value
\* enqueued and not yet dequeued and leaves the queue as it was.
C6_QueueFIFO ==
    [][/\ Len(deq') <= Len(enq')
       /\ SubSeq(enq', 1, Len(deq')) = deq'
       /\ (last'.obj = "queue" /\ last'.op = "peek" /\ q_items # <<>>) =>
            /\ last'.exc = "none"
            /\ last'.ret = enq[Len(deq) + 1]
            /\ q_items' = q_items /\ enq' = enq /\ deq' = deq]_vars

\* two different values were enqueued, the first dequeued, and peek shows
\* the second
C6_Witness ==
    /\ last.obj = "queue" /\ last.op = "peek" /\ last.exc = "none"
    /\ Len(enq) = 2 /\ enq[1] # enq[2] /\ deq = <<enq[1]>>
    /\ last.ret = enq[2]

\* C7: after any sequence of insert_head and delete, traverse() is the
\* sequence got by prepending on insert_head and removing only the first
\* occurrence on delete (nothing when the value is absent).
C7_ListRefinesSequence ==
    /\ TraverseFrom(nodes, head) = absList
    /\ (last.obj = "list" /\ last.op = "traverse") => last.seq = absList

\* delete removed a first occurrence behind the head and left a later
\* duplicate in place
C7_Witness ==
    /\ last.obj = "list" /\ last.op = "delete"
    /\ Len(nodes) = 3 /\ Len(absList) = 2
    /\ absList[1] # last.arg /\ absList[2] = last.arg

\* C8: at every partition step of both selectors the three groups add up to
\* the collection, left is strictly below the pivot, right strictly above,
\* and the pivot occurs at least once.
C8_PartitionInvariant ==
    part.set =>
        /\ Len(part.left) + part.pivot_count + Len(part.right) = Len(part.arr)
        /\ \A i \in 1..Len(part.left) : part.left[i] < part.pivot
        /\ \A i \in 1..Len(part.right) : part.right[i] > part.pivot
        /\ part.pivot_count >= 1

\* median_of_medians partitioned around a repeated pivot with both sides
\* non-empty
C8_Witness ==
    /\ part.set /\ alg = "MoM"
    /\ part.left # <<>> /\ part.right # <<>> /\ part.pivot_count >= 2

\* C9: with a valid top-level call, every call on the stack has a non-empty
\* collection and a rank within it; a length-1 quickselect call has k = 1.
C9_CallsStayValid ==
    ValidInput =>
        \A i \in 1..Len(stack) :
            /\ Len(stack[i].arr) >= 1
            /\ 1 <= stack[i].k /\ stack[i].k <= Len(stack[i].arr)
            /\ (alg = "QS" /\ Len(stack[i].arr) = 1) => stack[i].k = 1

\* quickselect reached its length-1 base case two calls deep, through right
C9_Witness ==
    /\ ValidInput /\ alg = "QS" /\ Len(stack) >= 3
    /\ Top.phase = "call" /\ Len(Top.arr) = 1 /\ Top.k < k

\* every frame but the outermost holds a strictly shorter collection than
\* its caller's
CalleesShorter ==
    \A i \in 2..Len(stack) : Len(stack[i].arr) < Len(stack[i - 1].arr)

\* the work a frame may still cause: a frame about to run on n elements may
\* make two calls on at most n - 1 elements each, one waiting for its pivot
\* may make one more, one waiting to pass a result on makes none
FrameWork(f) ==
    LET n == Len(f.arr)
    IN  IF f.phase = "call" THEN 2 ^ (n + 2) - 3
        ELSE IF f.phase = "pivot" THEN 2 ^ (n + 1) - 1
        ELSE 1

RECURSIVE WorkLeft(_)
WorkLeft(st) ==
    IF st = <<>> THEN 0 ELSE FrameWork(Head(st)) + WorkLeft(Tail(st))

\* some statement of the running call can execute
SomeStepReady ==
    \/ AtMoMBase \/ AtMoMMedians \/ AtMoMPartition
    \/ AtQSBase \/ AtQSEmpty \/ AtQSPartition
    \/ AtTailReturn

\* C10: with a valid top-level call, every recursive call is on a strictly
\* shorter collection than its caller's, the call is never stuck before it
\* ends, and the calls made so far plus the work that may remain never exceed
\* the finite budget the input's length sets, so the call ends whichever
\* pivots are drawn.
C10_Terminates ==
    ValidInput =>
        /\ CalleesShorter
        /\ pc = "run" => SomeStepReady
        /\ ncalls + WorkLeft(stack) <= FrameWork(Frame(arr, k))

\* a median_of_medians call that recursed for its pivot and then into left
\* has ended
C10_Witness ==
    /\ pc = "done" /\ ValidInput /\ alg = "MoM" /\ ncalls = 2
    /\ part.left # <<>> /\ k <= Len(part.left) /\ result.kind = "return"

====
